---------------------------- MODULE Spec2Model ----------------------------
(***************************************************************************)
(* A model of streamlit_app.py: one dashboard run over a YouTube video.    *)
(*                                                                         *)
(* The script runs top to bottom inside one try block (lines 92-270):      *)
(* parse_video, youtube_metrics, the key metrics, the published-date       *)
(* fragment, the most liked comments, the languages chart, the most        *)
(* replied comments and the sentiment pie.  Any exception ends the run in  *)
(* the handler of lines 269-270.  After the run the user can pick a        *)
(* timezone, which runs the body of the fragment (lines 116-143) again.    *)
(*                                                                         *)
(* A comment table is a sequence of rows.  The field Comment of a row      *)
(* stands for the Author, Comment and Timestamp columns together: it       *)
(* identifies the comment.  A URL is a sequence of tokens.                 *)
(***************************************************************************)
EXTENDS Integers, Sequences, FiniteSets, TLC

VARIABLES
    VIDEO_URL,        \* the text of the input field (line 85)
    pc,               \* the step of the script that runs next
    df,               \* the comment table returned by parse_video (line 95)
    df_top,           \* line 150
    top_11,           \* line 155
    df_langs,         \* line 171
    df_replies,       \* line 190
    top_replies,      \* the grid of line 198, df_replies.head(11)
    data_sentiments,  \* line 210, with its Review_percent column (line 217)
    data_list,        \* line 222 or line 233: the data of the pie chart
    tz_choice,        \* line 130: the value of the segmented control
    widgetShown,      \* the segmented control of line 130 is on the page
    commentFetches,   \* comment retrievals issued by parse_video in this run
    metricsFetches,   \* metadata retrievals issued by youtube_metrics
    publishedFetches, \* metadata retrievals issued by get_video_published_date
    completed,        \* the steps of this run that ran to their end, in order
    errorsShown,      \* calls of st.error (line 270) in this run
    faultAt,          \* the step whose exception reached the handler
    fragmentError,    \* an exception left a rerun of the fragment
    abandoned         \* the pass was cut short by a new input

vars == <<VIDEO_URL, pc, df, df_top, top_11, df_langs, df_replies, top_replies,
          data_sentiments, data_list, tz_choice, widgetShown, commentFetches,
          metricsFetches, publishedFetches, completed, errorsShown, faultAt,
          fragmentError, abandoned>>

derived == <<df_top, top_11, df_langs, df_replies, top_replies,
             data_sentiments, data_list>>

fetches == <<commentFetches, metricsFetches, publishedFetches>>

-----------------------------------------------------------------------------
(* Bounds of the model *)

MaxMix == 3          \* rows of a table with mixed languages and labels
MaxRank == 3         \* rows of a table with tied like counts
MaxLong == 12        \* rows of a long table
MaxCount == 1        \* largest like count of a table with ties
MaxUrlLen == 2       \* tokens of a submitted URL
MaxFragmentRuns == 2 \* runs of the fragment in one run of the script

(* Program constants *)

HeadRows == 11       \* head(11), lines 155, 195, 199

Languages == {"English", "Hindi"}
NoData == "No sentiment data"
Labels == <<"NEUTRAL", "POSITIVE", "NEGATIVE">>
Sentiments == {"NEUTRAL", "POSITIVE", "NEGATIVE", NoData}
Timezones == {"UTC", "EST", "IST"}
UrlTokens == {"v=", "youtu.be/", "x"}

Steps == <<"parse_video", "youtube_metrics", "key_metrics", "tz_choice_section",
           "top_comments", "languages", "most_replied", "sentiment">>

-----------------------------------------------------------------------------
(* Helpers *)

Min(a, b) == IF a < b THEN a ELSE b

Range(s) == {s[i] : i \in 1..Len(s)}

RECURSIVE SumSeq(_)
SumSeq(s) == IF s = <<>> THEN 0 ELSE Head(s) + SumSeq(Tail(s))

SeqsUpTo(S, n) == UNION {[1..m -> S] : m \in 0..n}

MaxOf(S) == CHOOSE m \in S : \A x \in S : x <= m

StepIndex(step) == CHOOSE i \in 1..Len(Steps) : Steps[i] = step

NextStep(step) ==
    IF StepIndex(step) = Len(Steps) THEN "done" ELSE Steps[StepIndex(step) + 1]

-----------------------------------------------------------------------------
(* pandas operations used by the script *)

\* The orders in which the members of S can come out of a descending sort by
\* k with the default kind of sort_values ("quicksort"), which is not a
\* stable sort: members with equal keys can come out in any order.
RECURSIVE DescOrders(_, _)
DescOrders(S, k) ==
    IF S = {} THEN {<<>>}
    ELSE LET m == MaxOf({k[x] : x \in S})
             first == {x \in S : k[x] = m}
         IN  UNION {{<<x>> \o rest : rest \in DescOrders(S \ {x}, k)} : x \in first}

\* tbl[cols]: the rows of tbl cut down to the columns cols.
Project(tbl, cols) == [i \in 1..Len(tbl) |-> [c \in cols |-> tbl[i][c]]]

\* A sort that puts the smallest key first.
sort_values_ascending(tbl, col) ==
    {[j \in 1..Len(tbl) |-> tbl[o[Len(tbl) + 1 - j]]] :
        o \in DescOrders(1..Len(tbl), [i \in 1..Len(tbl) |-> tbl[i][col]])}

\* tbl.sort_values(col, ascending=False).reset_index(drop=True): the set of
\* tables the call can return.
sort_values(tbl, col) ==
    {[j \in 1..Len(tbl) |-> tbl[o[j]]] :
        o \in DescOrders(1..Len(tbl), [i \in 1..Len(tbl) |-> tbl[i][col]])}

\* A head that keeps one row too many.
head_one_more(tbl, n) == SubSeq(tbl, 1, Min(n + 1, Len(tbl)))

\* tbl.head(n)
head(tbl, n) == SubSeq(tbl, 1, Min(n, Len(tbl)))

CountOf(column, v) == Cardinality({i \in 1..Len(column) : column[i] = v})

\* column.value_counts().rename_axis(name).reset_index(name=counts): one row
\* for each value of the column, most frequent first.
value_counts(column, name, counts) ==
    LET k == [v \in Range(column) |-> CountOf(column, v)]
    IN  {[j \in 1..Len(o) |-> (name :> o[j]) @@ (counts :> k[o[j]])] :
            o \in DescOrders(Range(column), k)}

Column(tbl, col) == [i \in 1..Len(tbl) |-> tbl[i][col]]

\* No filter at all.
AllRows(tbl) == tbl

\* df[df["Language"] == "English"]
EnglishRows(tbl) == SelectSeq(tbl, LAMBDA r : r.Language = "English")

\* round(1) of 100.0 * c / total, in tenths of a percent; a half goes to the
\* even neighbour, as numpy rounds.
RoundTenths(c, total) ==
    LET q == (1000 * c) \div total
        r == (1000 * c) % total
    IN  IF 2 * r < total THEN q
        ELSE IF 2 * r > total THEN q + 1
        ELSE IF q % 2 = 0 THEN q ELSE q + 1

\* Lines 217-219: the column Review_percent added to data_sentiments.
WithReviewPercent(vc) ==
    LET total == SumSeq(Column(vc, "counts"))
    IN  [i \in 1..Len(vc) |->
            [Sentiment |-> vc[i].Sentiment, counts |-> vc[i].counts,
             Review_percent |-> RoundTenths(vc[i].counts, total)]]

\* Lines 229-232 and percent_map.get(label, 0.0)
PercentMapGet(ds, label) ==
    IF \E i \in 1..Len(ds) : ds[i].Sentiment = label
    THEN LET i == CHOOSE i \in 1..Len(ds) : ds[i].Sentiment = label
         IN  ds[i].Review_percent
    ELSE 0

\* A list without the defaults of percent_map.get: an entry for a label only
\* when a comment carries it.
DataListNoDefault(ds) ==
    IF \E i \in 1..Len(ds) : ds[i].Sentiment = NoData
    THEN <<[value |-> ds[1].counts, name |-> NoData]>>
    ELSE [i \in 1..Len(ds) |-> [value |-> ds[i].Review_percent, name |-> ds[i].Sentiment]]

\* Lines 221-237.  The value of an entry of the second branch is a percentage
\* in tenths; the value of the entry of the first branch is a count.
DataList(ds) ==
    IF \E i \in 1..Len(ds) : ds[i].Sentiment = NoData
    THEN <<[value |-> ds[1].counts, name |-> NoData]>>
    ELSE [j \in 1..Len(Labels) |->
            [value |-> PercentMapGet(ds, Labels[j]), name |-> Labels[j]]]

-----------------------------------------------------------------------------
(* The inputs: comment tables and URLs *)

Row(c, likes, replies, lang, sent) ==
    [Comment |-> c, Likes |-> likes, TotalReplies |-> replies,
     Language |-> lang, TextBlob_Sentiment_Type |-> sent]

\* Every mix of languages and labels, with like counts that rise and reply
\* counts that fall along the table.
MixTables ==
    UNION {{[i \in 1..n |-> Row(i, i, n - i, f[i][1], f[i][2])] :
              f \in [1..n -> Languages \X Sentiments]} : n \in 0..MaxMix}

\* Every choice of like counts, ties included, over English comments whose
\* reply counts and labels alternate.
RankTables ==
    UNION {{[i \in 1..n |->
                Row(i, f[i], i % 2, "English",
                    IF i % 2 = 1 THEN "POSITIVE" ELSE "NEGATIVE")] :
              f \in [1..n -> 0..MaxCount]} : n \in 0..MaxRank}

\* Long tables: more rows than a grid shows.
LongTables ==
    UNION {{[i \in 1..n |->
                Row(i, IF asc THEN i ELSE n - i, IF asc THEN n - i ELSE i, "English",
                    IF i % 2 = 1 THEN p[1] ELSE p[2])] :
              asc \in BOOLEAN, p \in Sentiments \X Sentiments} : n \in 0..MaxLong}

Tables == MixTables \cup RankTables \cup LongTables

UrlTables == {t \in MixTables : Len(t) <= 1}

MainUrls == {<<>>, <<"v=", "x">>}

AllUrls == SeqsUpTo(UrlTokens, MaxUrlLen)

-----------------------------------------------------------------------------
(* The run *)

NoTable == <<>>

\* The segmented control of line 130 with no option selected (None).
Deselected == "deselected"

Init ==
    /\ VIDEO_URL = <<>>
    /\ pc = "idle"
    /\ df = NoTable
    /\ df_top = <<>> /\ top_11 = <<>> /\ df_langs = <<>>
    /\ df_replies = <<>> /\ top_replies = <<>>
    /\ data_sentiments = <<>> /\ data_list = <<>>
    /\ tz_choice = "none"
    /\ widgetShown = FALSE
    /\ commentFetches = 0 /\ metricsFetches = 0 /\ publishedFetches = 0
    /\ completed = <<>>
    /\ errorsShown = 0
    /\ faultAt = "none"
    /\ fragmentError = FALSE
    /\ abandoned = FALSE

\* A guard that lets every URL through.
AnyUrl(url) == TRUE

\* Line 93: if VIDEO_URL
UrlGiven(url) == url # <<>>

\* The user enters a URL: the script runs again from its first line.  Nothing
\* of the pass before is kept but the value of the segmented control, which
\* is kept as long as every pass that reaches its end has rendered it: for an
\* empty URL the pass ends at line 93 without it.
Submit(urls) ==
    /\ pc \in {"idle", "done"}
    /\ \E u \in urls :
        /\ VIDEO_URL' = u
        /\ pc' = IF UrlGiven(u) THEN "parse_video" ELSE "done"
        /\ tz_choice' = IF UrlGiven(u) THEN tz_choice ELSE "none"
    /\ df' = NoTable
    /\ df_top' = <<>> /\ top_11' = <<>> /\ df_langs' = <<>>
    /\ df_replies' = <<>> /\ top_replies' = <<>>
    /\ data_sentiments' = <<>> /\ data_list' = <<>>
    /\ widgetShown' = FALSE
    /\ commentFetches' = 0 /\ metricsFetches' = 0 /\ publishedFetches' = 0
    /\ completed' = <<>>
    /\ errorsShown' = 0
    /\ faultAt' = "none"
    /\ fragmentError' = FALSE
    /\ abandoned' = FALSE

\* A handler that shows the error and lets the script go on.
OnExceptionGoOn(step) ==
    /\ pc' = NextStep(step)
    /\ errorsShown' = errorsShown + 1
    /\ faultAt' = step
    /\ UNCHANGED <<VIDEO_URL, completed, fragmentError, abandoned>>

\* Lines 269-270: the exception of a step reaches the handler.
OnException(step) ==
    /\ pc' = "done"
    /\ errorsShown' = errorsShown + 1
    /\ faultAt' = step
    /\ UNCHANGED <<VIDEO_URL, completed, fragmentError, abandoned>>

\* The user enters a text in the field of line 85 while the pass is under
\* way: the pass is abandoned at the step it has reached, by an exception
\* that is not an Exception, so that the handler of line 269 does not catch
\* it and nothing is shown.  The next pass starts with Submit.
OnRerun ==
    /\ pc' = "done"
    /\ abandoned' = TRUE
    /\ UNCHANGED <<VIDEO_URL, completed, errorsShown, faultAt, fragmentError>>

\* A step that does not run to its end: it raises, or the pass is abandoned.
Ends(step) == OnException(step) \/ OnRerun

\* A step runs to its end and the script goes on with the next one.
Complete(step) ==
    /\ pc' = NextStep(step)
    /\ completed' = Append(completed, step)
    /\ UNCHANGED <<VIDEO_URL, errorsShown, faultAt, fragmentError, abandoned>>

\* The segmented control keeps its value.
KeepWidget == UNCHANGED <<tz_choice, widgetShown>>

\* A pass or a run of the fragment ends in an exception before line 130: the
\* segmented control is not rendered and its value is not kept.
DropWidget == tz_choice' = "none" /\ widgetShown' = FALSE

\* A step before line 130 that does not run to its end.
EndsEarly(step) ==
    \/ OnException(step) /\ DropWidget
    \/ OnRerun /\ KeepWidget

\* A run that stops after parse_video when the table has no rows.
ParseVideoEmptyResult(tables) ==
    /\ pc = "parse_video"
    /\ UNCHANGED <<derived, metricsFetches, publishedFetches>>
    /\ \/ /\ commentFetches' = commentFetches + 1
          /\ KeepWidget
          /\ \E t \in tables :
                /\ df' = t
                /\ completed' = Append(completed, "parse_video")
                /\ pc' = IF t = <<>> THEN "done" ELSE NextStep("parse_video")
                /\ UNCHANGED <<VIDEO_URL, errorsShown, faultAt, fragmentError,
                               abandoned>>
       \/ /\ commentFetches' = commentFetches + 1
          /\ EndsEarly("parse_video") /\ UNCHANGED df
       \/ EndsEarly("parse_video") /\ UNCHANGED <<df, commentFetches>>

\* Line 95: df = parse_video(VIDEO_URL).  The script hands every URL that is
\* not empty to parse_video as it is.  parse_video is called, not defined, by
\* the script: for any URL it can retrieve the comments and return a table,
\* raise after a retrieval, or raise before any retrieval.
ParseVideo(tables) ==
    /\ pc = "parse_video"
    /\ UNCHANGED <<derived, metricsFetches, publishedFetches>>
    /\ \/ /\ commentFetches' = commentFetches + 1
          /\ KeepWidget
          /\ \E t \in tables : df' = t /\ Complete("parse_video")
       \/ /\ commentFetches' = commentFetches + 1
          /\ EndsEarly("parse_video") /\ UNCHANGED df
       \/ EndsEarly("parse_video") /\ UNCHANGED <<df, commentFetches>>

\* Line 96: df_metrics = youtube_metrics(VIDEO_URL)
YoutubeMetrics ==
    /\ pc = "youtube_metrics"
    /\ metricsFetches' = metricsFetches + 1
    /\ UNCHANGED <<df, derived, commentFetches, publishedFetches>>
    /\ \/ Complete("youtube_metrics") /\ KeepWidget
       \/ EndsEarly("youtube_metrics")

\* Lines 99-112: the three metrics and the video preview
KeyMetrics ==
    /\ pc = "key_metrics"
    /\ UNCHANGED <<df, derived, fetches>>
    /\ \/ Complete("key_metrics") /\ KeepWidget
       \/ EndsEarly("key_metrics")

\* Line 130: the value of the segmented control, "UTC" by default and the
\* selection of the user once there is one.
WidgetValue(kept) == IF kept = "none" THEN "UTC" ELSE kept

\* Lines 115-145: the fragment, as the script runs it.  The decorator of line
\* 115 or the call of line 145 can raise before the body runs; line 117
\* fetches the metadata; lines 117-128 can raise before the segmented control
\* of line 130; lines 138-142 read df_published_date[tz_choice], which raises
\* when no option is selected.
TzChoiceSection ==
    /\ pc = "tz_choice_section"
    /\ UNCHANGED <<df, derived, commentFetches, metricsFetches>>
    /\ \/ /\ UNCHANGED publishedFetches
          /\ EndsEarly("tz_choice_section")
       \/ /\ publishedFetches' = publishedFetches + 1
          /\ EndsEarly("tz_choice_section")
       \/ /\ publishedFetches' = publishedFetches + 1
          /\ tz_choice' = WidgetValue(tz_choice)
          /\ widgetShown' = TRUE
          /\ \/ WidgetValue(tz_choice) \in Timezones /\ Complete("tz_choice_section")
             \/ Ends("tz_choice_section")

\* A section that sorts the table itself (sort_values with inplace=True).
TopCommentsInPlace ==
    /\ pc = "top_comments"
    /\ UNCHANGED <<df_langs, df_replies, top_replies, data_sentiments,
                   data_list, tz_choice, widgetShown, fetches>>
    /\ \/ \E s \in sort_values(df, "Likes") :
            /\ df' = s
            /\ df_top' = Project(s, {"Comment", "Likes"})
            /\ top_11' = head(Project(s, {"Comment", "Likes"}), HeadRows)
            /\ \/ Complete("top_comments")
               \/ Ends("top_comments")
       \/ Ends("top_comments") /\ UNCHANGED <<df, df_top, top_11>>

\* Lines 148-166.  As in every section, an exception is raised by the
\* rendering call that ends the section or by a statement before it.
TopComments ==
    /\ pc = "top_comments"
    /\ UNCHANGED <<df, df_langs, df_replies, top_replies, data_sentiments,
                   data_list, tz_choice, widgetShown, fetches>>
    /\ \/ \E s \in sort_values(Project(df, {"Comment", "Likes"}), "Likes") :
            /\ df_top' = s
            /\ top_11' = head(s, HeadRows)
            /\ \/ Complete("top_comments")
               \/ Ends("top_comments")
       \/ Ends("top_comments") /\ UNCHANGED <<df_top, top_11>>

\* Lines 169-185
LanguagesSection ==
    /\ pc = "languages"
    /\ UNCHANGED <<df, df_top, top_11, df_replies, top_replies, data_sentiments,
                   data_list, tz_choice, widgetShown, fetches>>
    /\ \/ \E vc \in value_counts(Column(df, "Language"), "Language", "count") :
            /\ df_langs' = vc
            /\ \/ Complete("languages")
               \/ Ends("languages")
       \/ Ends("languages") /\ UNCHANGED df_langs

\* Lines 188-204
MostReplied ==
    /\ pc = "most_replied"
    /\ UNCHANGED <<df, df_top, top_11, df_langs, data_sentiments, data_list,
                   tz_choice, widgetShown, fetches>>
    /\ \/ \E s \in sort_values(Project(df, {"Comment", "TotalReplies"}), "TotalReplies") :
            /\ df_replies' = s
            /\ top_replies' = head(s, HeadRows)
            /\ \/ Complete("most_replied")
               \/ Ends("most_replied")
       \/ Ends("most_replied") /\ UNCHANGED <<df_replies, top_replies>>

\* Lines 207-267
SentimentSection ==
    /\ pc = "sentiment"
    /\ UNCHANGED <<df, df_top, top_11, df_langs, df_replies, top_replies,
                   tz_choice, widgetShown, fetches>>
    /\ \/ \E vc \in value_counts(Column(EnglishRows(df), "TextBlob_Sentiment_Type"),
                                  "Sentiment", "counts") :
            /\ data_sentiments' = WithReviewPercent(vc)
            /\ data_list' = DataList(WithReviewPercent(vc))
            /\ \/ Complete("sentiment")
               \/ Ends("sentiment")
       \/ Ends("sentiment") /\ UNCHANGED <<data_sentiments, data_list>>

\* The user clicks an option of the segmented control of line 130, another
\* timezone or the selected one, which deselects it: the body of the fragment
\* (lines 117-143) runs again, outside the try block of the script.  The
\* control is there whenever the last pass or run of the fragment rendered
\* it, whatever happened after line 130.  With no option selected, line 140
\* raises after the fetch of line 117.
TzSelect ==
    /\ pc = "done"
    /\ ~abandoned
    /\ widgetShown
    /\ publishedFetches < MaxFragmentRuns
    /\ UNCHANGED <<VIDEO_URL, pc, df, derived, commentFetches, metricsFetches,
                   completed, errorsShown, faultAt, abandoned>>
    /\ \E tz \in (Timezones \cup {Deselected}) \ {tz_choice} :
        \/ /\ UNCHANGED publishedFetches
           /\ fragmentError' = TRUE
           /\ DropWidget
        \/ /\ publishedFetches' = publishedFetches + 1
           /\ fragmentError' = TRUE
           /\ DropWidget
        \/ /\ publishedFetches' = publishedFetches + 1
           /\ tz_choice' = tz
           /\ widgetShown' = TRUE
           /\ \/ tz \in Timezones /\ UNCHANGED fragmentError
              \/ fragmentError' = TRUE

NextOver(urls, tables) ==
    \/ Submit(urls)
    \/ ParseVideo(tables)
    \/ YoutubeMetrics
    \/ KeyMetrics
    \/ TzChoiceSection
    \/ TopComments
    \/ LanguagesSection
    \/ MostReplied
    \/ SentimentSection
    \/ TzSelect

Next == NextOver(MainUrls, Tables)

NextUrl == NextOver(AllUrls, UrlTables)

Spec == Init /\ [][Next]_vars

SpecUrl == Init /\ [][NextUrl]_vars

-----------------------------------------------------------------------------
(* The properties *)

Ran(step) == step \in Range(completed)

\* The URL holds a marker of a video identifier.
HasMarker(url) == \E i \in 1..Len(url) : url[i] \in {"v=", "youtu.be/"}

LabelColumn == "TextBlob_Sentiment_Type"

\* The English comments of the table that carry label l.
EnglishWith(l) ==
    Cardinality({i \in 1..Len(df) : df[i].Language = "English" /\ df[i][LabelColumn] = l})

EnglishCount == Cardinality({i \in 1..Len(df) : df[i].Language = "English"})

EntriesNamed(l) == {j \in 1..Len(data_list) : data_list[j].name = l}

\* The label of the comment a record of a grid shows.
LabelOfComment(c) == (CHOOSE r \in Range(df) : r.Comment = c)[LabelColumn]

PositionOfComment(c) == CHOOSE i \in 1..Len(df) : df[i].Comment = c

NonIncreasing(tbl, col) ==
    \A i \in 1..Len(tbl) : \A j \in i..Len(tbl) : tbl[i][col] >= tbl[j][col]

ZeroList == [j \in 1..3 |-> [value |-> 0, name |-> Labels[j]]]

\* C1 as written: whatever the table, the data of the pie chart holds an entry
\* for each of the three labels, with the value 0 for a label no comment
\* carries.
C1_AllThreeLabels ==
    Ran("sentiment") =>
        \A j \in 1..3 :
            /\ EntriesNamed(Labels[j]) # {}
            /\ (\A i \in 1..Len(df) : df[i][LabelColumn] # Labels[j]) =>
                   \A e \in EntriesNamed(Labels[j]) : data_list[e].value = 0

\* C1 amended: when no English comment carries "No sentiment data", the data
\* of the pie chart is one entry for each of NEUTRAL, POSITIVE and NEGATIVE,
\* with the value 0 for a label no English comment carries; when an English
\* comment carries "No sentiment data", it is the single entry of that name.
C1_ThreeLabelsUnlessNoData ==
    Ran("sentiment") =>
        IF EnglishWith(NoData) = 0
        THEN /\ Len(data_list) = 3
             /\ \A j \in 1..3 :
                    /\ data_list[j].name = Labels[j]
                    /\ EnglishWith(Labels[j]) = 0 => data_list[j].value = 0
        ELSE /\ Len(data_list) = 1
             /\ data_list[1].name = NoData

C1_Witness ==
    /\ Ran("sentiment")
    /\ EnglishWith(NoData) = 0
    /\ EnglishWith("POSITIVE") > 0
    /\ EnglishWith("NEGATIVE") = 0
    /\ \E i \in 1..Len(df) : df[i].Language = "Hindi" /\ df[i][LabelColumn] = "NEGATIVE"
    /\ data_list[3] = [value |-> 0, name |-> "NEGATIVE"]

\* C2 as written: the counts of the sentiment distribution sum to the number
\* of comments of the table.
C2_CountsSumToTable ==
    Ran("sentiment") => SumSeq(Column(data_sentiments, "counts")) = Len(df)

\* C2 amended: the counts of the sentiment distribution sum to the number of
\* English comments of the table, and every English comment is counted under
\* its own label, in the one row of that label.
C2_CountsSumToEnglish ==
    Ran("sentiment") =>
        /\ SumSeq(Column(data_sentiments, "counts")) = EnglishCount
        /\ \A l \in Sentiments :
               LET rows == {i \in 1..Len(data_sentiments) : data_sentiments[i].Sentiment = l}
               IN  IF EnglishWith(l) = 0 THEN rows = {}
                   ELSE /\ Cardinality(rows) = 1
                        /\ \A i \in rows : data_sentiments[i].counts = EnglishWith(l)

C2_Witness ==
    /\ Ran("sentiment")
    /\ EnglishCount = 2
    /\ Len(df) = 3
    /\ SumSeq(Column(data_sentiments, "counts")) = 2

\* C3 as written: the list of the most liked comments holds at most 5 records,
\* all of them with the one label, Positive or Negative, the list is for.
C3_TopFiveOfOneLabel ==
    Ran("top_comments") =>
        /\ Len(top_11) <= 5
        /\ \E l \in {"POSITIVE", "NEGATIVE"} :
               \A i \in 1..Len(top_11) : LabelOfComment(top_11[i].Comment) = l

\* C3 amended: the list of the most liked comments holds at most 11 records,
\* each a comment of the table, and it is picked whatever the labels are: a
\* table of at most 11 comments is shown whole.
C3_TopElevenOfAnyLabel ==
    Ran("top_comments") =>
        /\ Len(top_11) <= 11
        /\ \A i \in 1..Len(top_11) :
               \E k \in 1..Len(df) :
                   top_11[i].Comment = df[k].Comment /\ top_11[i].Likes = df[k].Likes
        /\ Len(df) <= 11 =>
               \A k \in 1..Len(df) : \E i \in 1..Len(top_11) : top_11[i].Comment = df[k].Comment

C3_Witness ==
    /\ Ran("top_comments")
    /\ Len(df) = 12
    /\ Len(top_11) = 11
    /\ \E i, j \in 1..11 :
           /\ LabelOfComment(top_11[i].Comment) = "NEUTRAL"
           /\ LabelOfComment(top_11[j].Comment) = "POSITIVE"

\* C4 as written: the list is ordered by like count, largest first, comments
\* with equal like counts keep the order they have in the table, and the
\* records kept are the first ones of that order.
C4_StableOrder ==
    Ran("top_comments") =>
        /\ NonIncreasing(df_top, "Likes")
        /\ \A i \in 1..Len(df_top) : \A j \in (i + 1)..Len(df_top) :
               df_top[i].Likes = df_top[j].Likes =>
                   PositionOfComment(df_top[i].Comment) < PositionOfComment(df_top[j].Comment)
        /\ top_11 = SubSeq(df_top, 1, Min(11, Len(df_top)))

\* C4 amended: the list is ordered by like count, largest first, it holds
\* every comment of the table once, and the records kept are the first 11 of
\* the order the sort produced; the order of comments with equal like counts
\* is not fixed.
C4_DescendingOrder ==
    Ran("top_comments") =>
        /\ NonIncreasing(df_top, "Likes")
        /\ Len(df_top) = Len(df)
        /\ \A k \in 1..Len(df) :
               \E i \in 1..Len(df_top) :
                   df_top[i].Comment = df[k].Comment /\ df_top[i].Likes = df[k].Likes
        /\ top_11 = SubSeq(df_top, 1, Min(11, Len(df_top)))

C4_Witness ==
    /\ Ran("top_comments")
    /\ Len(df) = 12
    /\ df[1].Likes < df[12].Likes
    /\ df_top[1].Comment = 12
    /\ Len(top_11) = 11
    /\ \A i \in 1..11 : top_11[i].Comment # 1

\* C5 as written: when the table has no rows, none of the four sections is
\* computed or rendered, and no error is shown.
C5_EmptyResult ==
    (Ran("parse_video") /\ Len(df) = 0) =>
        /\ \A s \in {"top_comments", "languages", "most_replied", "sentiment"} : ~Ran(s)
        /\ faultAt = "none" => errorsShown = 0

\* C5 amended: when the table has no rows, no step raises and the pass is not
\* abandoned for a new input, the run goes through every section as for any
\* other table: both grids and the language chart are rendered without rows,
\* the pie chart with the value 0 for each of the three labels, and no error
\* is shown.
C5_EmptySections ==
    (pc = "done" /\ faultAt = "none" /\ ~abandoned /\ Ran("parse_video")
        /\ Len(df) = 0) =>
        /\ completed = Steps
        /\ top_11 = <<>>
        /\ df_langs = <<>>
        /\ top_replies = <<>>
        /\ data_list = ZeroList
        /\ errorsShown = 0

C5_Witness ==
    /\ pc = "done"
    /\ faultAt = "none"
    /\ ~abandoned
    /\ HasMarker(VIDEO_URL)
    /\ Len(df) = 0
    /\ Ran("sentiment")
    /\ data_list = ZeroList

\* C6 as written: every exception raised in a run, in a step of the script or
\* when the fragment runs again, reaches the handler and is shown once by it.
C6_EveryFaultHandled ==
    errorsShown = (IF faultAt # "none" THEN 1 ELSE 0) + (IF fragmentError THEN 1 ELSE 0)

\* C6 amended: an exception raised by a step of the pass of the script from
\* top to bottom reaches the handler, is shown once, and ends the pass: the
\* steps before the failing one are the only ones that ran, and no step ran
\* twice.  An exception raised when the fragment runs again after a click on
\* the timezone control is outside the try block: it does not reach the
\* handler and st.error does not show it.  Nor does the handler show anything
\* when a pass is abandoned for a new input.
C6_ScriptFaultEndsRun ==
    /\ errorsShown <= 1
    /\ faultAt = "none" => errorsShown = 0
    /\ faultAt # "none" =>
           /\ pc = "done"
           /\ errorsShown = 1
           /\ completed = SubSeq(Steps, 1, StepIndex(faultAt) - 1)
    /\ completed = SubSeq(Steps, 1, Len(completed))
    /\ commentFetches <= 1
    /\ metricsFetches <= 1
    /\ fragmentError =>
           /\ pc = "done"
           /\ errorsShown = (IF faultAt # "none" THEN 1 ELSE 0)
    /\ abandoned =>
           /\ pc = "done"
           /\ faultAt = "none"
           /\ errorsShown = 0

C6_Witness ==
    /\ faultAt = "languages"
    /\ pc = "done"
    /\ errorsShown = 1
    /\ completed = <<"parse_video", "youtube_metrics", "key_metrics",
                     "tz_choice_section", "top_comments">>
    /\ data_list = <<>>
    /\ fragmentError

\* C7 as written: a submitted URL without a marker, the empty one included,
\* is reported to the user and no retrieval is issued.
C7_NoMarkerReported ==
    (pc = "done" /\ ~HasMarker(VIDEO_URL)) =>
        /\ errorsShown = 1
        /\ commentFetches = 0 /\ metricsFetches = 0 /\ publishedFetches = 0

\* C7 amended: for the empty URL no retrieval is issued and nothing is
\* reported.  A URL without a marker that is not empty is handed to
\* parse_video unchecked: the metadata retrievals are issued only once
\* parse_video has returned, and when parse_video raises, the problem is
\* reported once and no metadata retrieval is issued.  A pass that ends
\* before parse_video has returned ends so, unless it is abandoned for a new
\* input.
C7_NoMarkerNoRetrieval ==
    /\ (pc # "idle" /\ VIDEO_URL = <<>>) =>
           /\ pc = "done"
           /\ commentFetches = 0 /\ metricsFetches = 0 /\ publishedFetches = 0
           /\ errorsShown = 0 /\ faultAt = "none" /\ completed = <<>>
    /\ (~HasMarker(VIDEO_URL) /\ VIDEO_URL # <<>>) =>
           /\ ~Ran("parse_video") => metricsFetches = 0 /\ publishedFetches = 0
           /\ faultAt = "parse_video" =>
                  /\ pc = "done" /\ errorsShown = 1
                  /\ metricsFetches = 0 /\ publishedFetches = 0
           /\ (pc # "parse_video" /\ ~Ran("parse_video") /\ ~abandoned) =>
                  pc = "done" /\ errorsShown = 1 /\ faultAt = "parse_video"

C7_Witness ==
    /\ pc = "done"
    /\ VIDEO_URL = <<"x", "x">>
    /\ faultAt = "parse_video"
    /\ errorsShown = 1
    /\ metricsFetches = 0 /\ publishedFetches = 0

\* C8: whatever timezones the user picks, the metadata shown by the fragment
\* is fetched once in a run.
C8_FetchedOnce == Ran("tz_choice_section") => publishedFetches = 1

\* C9: the sections only read the table: no step after parse_video changes
\* its rows, their order or their values.
C9_TableOnlyRead ==
    [][(pc \in (Range(Steps) \ {"parse_video"})) => (df' = df)]_vars

C9_Witness ==
    /\ pc = "done"
    /\ completed = Steps
    /\ Len(df) = 3
    /\ df_top[1].Comment # df[1].Comment
    /\ Len(data_sentiments) = 2
    /\ Len(EnglishRows(df)) < Len(df)

\* C10: when an English comment carries "No sentiment data", the one entry of
\* the pie chart with that name has the number of English comments with that
\* label as its value.
C10_NoDataCount ==
    (Ran("sentiment") /\ EnglishWith(NoData) > 0) =>
        /\ Cardinality(EntriesNamed(NoData)) = 1
        /\ \A j \in EntriesNamed(NoData) : data_list[j].value = EnglishWith(NoData)

=============================================================================
